---- MODULE Spec2Model ----
(***************************************************************************)
(* Model of qmk_accessibility_hid (src/accessibility_events.c): the three  *)
(* outbound event senders and the inbound raw-HID command handler, with    *)
(* the firmware's clock, layer state and raw-HID transport as environment. *)
(***************************************************************************)
EXTENDS Integers, Sequences, FiniteSets, TLC

\* ---------------------------------------------------------------- bounds
\* Total number of calls into the module that one behaviour records.
MaxCalls == 5
\* Number of accessibility_send_layer_change calls among them.
MaxLayerCalls == 3
\* Number of raw_hid_receive calls among them.
MaxRecvCalls == 1
\* Layer-change calls made before the layer hook starts to retry.
MaxPrefixCalls == 1
\* Caps-Word reports after which no interleaved call is started.
MaxConcReports == 4

\* ------------------------------------------------------ program constants
\* RAW HID packet size (uint8_t data[32]).
RAW_EPSIZE == 32
\* Debounce window in ms (current_time - last_time < 200).
DEBOUNCE_MS == 200
\* Initial value of previous_layer ("invalid layer").
LAYER_UNSET == 255
\* Event type bytes.
EVENT_LAYER == 1
EVENT_CAPS_WORD == 2
CMD_GET_LAYER == 99

\* ------------------------------------------------------------ input sets
\* Layer arguments passed by the firmware's layer hook (uint8_t).
Layers == {0, 1, 2, 255}
\* Millisecond counter values (ms since boot) at which the layer hook fires.
TimePoints == {0, 50, 150, 210, 260, 460}
\* Execution contexts that can call into the module.
Contexts == {"main", "isr"}
\* Values of the firmware's layer_state bitmask when a packet arrives.
LayerStates == {1, 9}

ReportTypes == {EVENT_LAYER, EVENT_CAPS_WORD, CMD_GET_LAYER}

VARIABLES
    clock,            \* environment: milliseconds since boot at the latest
                      \* reading of the timer
    previous_layer,   \* static uint8_t previous_layer
    caps_word_state,  \* static bool caps_word_state
    last_time,        \* static uint32_t last_time
    sent,             \* transport: reports handed to raw_hid_send, per type
    layerCalls,       \* history: accessibility_send_layer_change calls, each
                      \* with its argument, the counter value at the call,
                      \* previous_layer and last_time before it and the
                      \* reports it sent
    capsCalls,        \* history: accessibility_send_caps_word_on/off calls,
                      \* each with caps_word_state before and after it and
                      \* the reports it sent
    recvCalls,        \* history: raw_hid_receive calls, each with byte 0 of
                      \* the packet, layer_state and the reports it sent
    pending,          \* caller: the layer the layer hook keeps passing until
                      \* it is reported, -1 when it is not retrying
    pc,               \* caller: for each execution context, the statement
                      \* its Caps Word call has reached ("idle": no call)
    overlapped        \* history: a context ran a statement while the call
                      \* of another context was in progress

\* The callers' state, which the calls that run to completion leave alone.
callers == <<pending, pc, overlapped>>

vars == <<clock, previous_layer, caps_word_state, last_time,
          sent, layerCalls, capsCalls, recvCalls, pending, pc, overlapped>>

\* --------------------------------------------------------- integer widths
\* uint32_t values are kept as two 16-bit halves, so that the modular
\* difference below never leaves the range of a signed 32-bit integer.
U32(x) == [hi |-> (x \div 65536) % 65536, lo |-> x % 65536]

\* a - b in uint32_t arithmetic.
U32Sub(a, b) ==
    LET d == a.lo - b.lo
        borrow == IF d < 0 THEN 1 ELSE 0
    IN  [hi |-> (a.hi - b.hi - borrow + 65536) % 65536,
         lo |-> (d + 65536) % 65536]

\* x < n for a uint32_t x and a constant n below 65536.
U32Less(x, n) == x.hi = 0 /\ x.lo < n

\* ------------------------------------------------------------ environment
\* uint16_t timer_read(void): the low 16 bits of the millisecond counter,
\* widened to uint32_t by the assignment to current_time.
timer_read(now) == now % 65536

\* get_highest_layer(layer_state): index of the highest set bit, 0 if none.
get_highest_layer(state) ==
    LET bits == {i \in 0..7 : (state \div (2 ^ i)) % 2 = 1}
    IN  IF bits = {} THEN 0 ELSE CHOOSE i \in bits : \A j \in bits : j <= i

\* Variant: the buffer is not zero-filled before use.
Report_unfilled(type, payload) ==
    [i \in 1..RAW_EPSIZE |->
        IF i = 1 THEN type ELSE IF i = 2 THEN payload % 256 ELSE 170]

\* uint8_t data[32] = {0}; data[0] = type; data[1] = payload;
Report(type, payload) ==
    [i \in 1..RAW_EPSIZE |->
        IF i = 1 THEN type ELSE IF i = 2 THEN payload % 256 ELSE 0]

\* raw_hid_send(data, sizeof(data)): the transport takes the report.  The
\* reports taken are kept per event type, in the order they were sent.
raw_hid_send(s, data) == [s EXCEPT ![data[1]] = Append(@, data)]

\* An inbound packet: byte 0 is the command, the rest is arbitrary.
Packet(cmd, fill) == [i \in 1..RAW_EPSIZE |-> IF i = 1 THEN cmd ELSE fill]

\* The packets that arrive, each with its declared length: both commands,
\* with the other bytes zero or not and the length 32 or not.
Inbound ==
    {<<Packet(99, 0), 32>>, <<Packet(99, 5), 0>>,
     <<Packet(7, 0), 0>>, <<Packet(7, 5), 32>>}

NumSent(s) == Len(s[EVENT_LAYER]) + Len(s[EVENT_CAPS_WORD]) + Len(s[CMD_GET_LAYER])

NumCalls == Len(layerCalls) + Len(capsCalls) + Len(recvCalls)

\* ------------------------------------------------------------------ Init
Init ==
    /\ clock = 0
    /\ previous_layer = LAYER_UNSET
    /\ caps_word_state = FALSE
    /\ last_time = 0
    /\ sent = [ty \in ReportTypes |-> <<>>]
    /\ layerCalls = <<>>
    /\ capsCalls = <<>>
    /\ recvCalls = <<>>
    /\ pending = -1
    /\ pc = [c \in Contexts |-> "idle"]
    /\ overlapped = FALSE

\* ---------------------------------------------------------- raw_hid_receive
\* Variant: the response carries the last reported layer.
ResponseLayer_previous(layer_state, prev) == prev

\* response[1] = get_highest_layer(layer_state);
ResponseLayer(layer_state, prev) == get_highest_layer(layer_state)

\* Variant: every command byte is answered.
IsGetLayer_any(data) == TRUE

\* if (data[0] == 99)
IsGetLayer(data) == data[1] = CMD_GET_LAYER

\* layer_state is the firmware's global, read once by the handler: its value
\* at the call is the third input.
raw_hid_receive(data, length, layer_state) ==
    /\ NumCalls < MaxCalls
    /\ Len(recvCalls) < MaxRecvCalls
    /\ IF IsGetLayer(data)
       THEN sent' = raw_hid_send(sent, Report(CMD_GET_LAYER,
                                   ResponseLayer(layer_state, previous_layer)))
       ELSE sent' = sent
    /\ recvCalls' = Append(recvCalls,
           [cmd |-> data[1], ls |-> layer_state,
            tx |-> NumSent(sent') - NumSent(sent)])
    /\ UNCHANGED <<clock, previous_layer, caps_word_state,
                   last_time, layerCalls, capsCalls>>
    /\ UNCHANGED callers

\* ------------------------------------------ accessibility_send_layer_change
\* Variants: a window of 100 ms, a window of 300 ms, no window.
Debounced_window100(current_time, last) ==
    U32Less(U32Sub(U32(current_time), U32(last)), 100)

Debounced_window300(current_time, last) ==
    U32Less(U32Sub(U32(current_time), U32(last)), 300)

Debounced_never(current_time, last) == FALSE

\* if (current_time - last_time < 200)
Debounced(current_time, last) ==
    U32Less(U32Sub(U32(current_time), U32(last)), DEBOUNCE_MS)

\* Variant: the unset previous_layer counts as different from every layer.
LayerChanged_sentinel(layer, prev) == layer # prev \/ prev = LAYER_UNSET

\* Variant: the report is sent whether or not the layer changed.
LayerChanged_always(layer, prev) == TRUE

\* if (layer != previous_layer)
LayerChanged(layer, prev) == layer # prev

\* Variant: the early return of the debounce also stores current_time.
accessibility_send_layer_change_restamp(layer, now) ==
    /\ NumCalls < MaxCalls
    /\ Len(layerCalls) < MaxLayerCalls
    /\ now >= clock
    /\ clock' = now
    /\ LET current_time == timer_read(now)
       IN  /\ IF Debounced(current_time, last_time)
              THEN UNCHANGED <<previous_layer, sent>>
              ELSE IF LayerChanged(layer, previous_layer)
                   THEN /\ sent' = raw_hid_send(sent, Report(EVENT_LAYER, layer))
                        /\ previous_layer' = layer
                   ELSE UNCHANGED <<previous_layer, sent>>
           /\ last_time' = current_time
    /\ layerCalls' = Append(layerCalls,
           [layer |-> layer, t |-> now, prev |-> previous_layer,
            last |-> last_time,
            tx |-> NumSent(sent') - NumSent(sent)])
    /\ UNCHANGED <<caps_word_state, capsCalls, recvCalls>>
    /\ UNCHANGED callers

\* Variant: last_time is stored only when a report is sent.
LayerChangeStep_stamp_on_send(layer, now) ==
    /\ clock' = now
    /\ LET current_time == timer_read(now)
       IN  IF Debounced(current_time, last_time)
           THEN UNCHANGED <<previous_layer, last_time, sent>>
           ELSE IF LayerChanged(layer, previous_layer)
                THEN /\ sent' = raw_hid_send(sent, Report(EVENT_LAYER, layer))
                     /\ previous_layer' = layer
                     /\ last_time' = current_time
                ELSE UNCHANGED <<previous_layer, last_time, sent>>

\* Variant: a debounced call still records its layer in previous_layer.
LayerChangeStep_eager(layer, now) ==
    /\ clock' = now
    /\ LET current_time == timer_read(now)
       IN  IF Debounced(current_time, last_time)
           THEN /\ previous_layer' = layer
                /\ UNCHANGED <<last_time, sent>>
           ELSE /\ IF LayerChanged(layer, previous_layer)
                   THEN /\ sent' = raw_hid_send(sent, Report(EVENT_LAYER, layer))
                        /\ previous_layer' = layer
                   ELSE UNCHANGED <<previous_layer, sent>>
                /\ last_time' = current_time

\* Variant: the early return of the debounce also stores current_time.
LayerChangeStep_restamp(layer, now) ==
    /\ clock' = now
    /\ LET current_time == timer_read(now)
       IN  /\ IF Debounced(current_time, last_time)
              THEN UNCHANGED <<previous_layer, sent>>
              ELSE IF LayerChanged(layer, previous_layer)
                   THEN /\ sent' = raw_hid_send(sent, Report(EVENT_LAYER, layer))
                        /\ previous_layer' = layer
                   ELSE UNCHANGED <<previous_layer, sent>>
           /\ last_time' = current_time

\* The body of accessibility_send_layer_change, lines 41-59: what one call
\* made at counter value now does to the statics and the transport.
LayerChangeStep(layer, now) ==
    /\ clock' = now
    /\ LET current_time == timer_read(now)
       IN  IF Debounced(current_time, last_time)
           THEN UNCHANGED <<previous_layer, last_time, sent>>
           ELSE /\ IF LayerChanged(layer, previous_layer)
                   THEN /\ sent' = raw_hid_send(sent, Report(EVENT_LAYER, layer))
                        /\ previous_layer' = layer
                   ELSE UNCHANGED <<previous_layer, sent>>
                /\ last_time' = current_time

\* now is the millisecond counter at the call, which timer_read() reads: the
\* counter never runs backwards.
accessibility_send_layer_change(layer, now) ==
    /\ NumCalls < MaxCalls
    /\ Len(layerCalls) < MaxLayerCalls
    /\ now >= clock
    /\ LayerChangeStep(layer, now)
    /\ layerCalls' = Append(layerCalls,
           [layer |-> layer, t |-> now, prev |-> previous_layer,
            last |-> last_time,
            tx |-> NumSent(sent') - NumSent(sent)])
    /\ UNCHANGED <<caps_word_state, capsCalls, recvCalls>>
    /\ UNCHANGED callers

\* ------------------------------------------ accessibility_send_caps_word_on
\* Variant: the report is sent without the test of caps_word_state.
accessibility_send_caps_word_on_unconditional ==
    /\ NumCalls < MaxCalls
    /\ sent' = raw_hid_send(sent, Report(EVENT_CAPS_WORD, 1))
    /\ caps_word_state' = TRUE
    /\ capsCalls' = Append(capsCalls,
           [on |-> TRUE, before |-> caps_word_state,
            after |-> caps_word_state', tx |-> NumSent(sent') - NumSent(sent)])
    /\ UNCHANGED <<clock, previous_layer, last_time, layerCalls, recvCalls>>
    /\ UNCHANGED callers

\* Variant: Caps Word on shares the debounce timer of the layer change.
accessibility_send_caps_word_on_stamping ==
    /\ NumCalls < MaxCalls
    /\ IF ~caps_word_state
       THEN /\ sent' = raw_hid_send(sent, Report(EVENT_CAPS_WORD, 1))
            /\ caps_word_state' = TRUE
       ELSE UNCHANGED <<sent, caps_word_state>>
    /\ last_time' = timer_read(clock)
    /\ capsCalls' = Append(capsCalls,
           [on |-> TRUE, before |-> caps_word_state,
            after |-> caps_word_state', tx |-> NumSent(sent') - NumSent(sent)])
    /\ UNCHANGED <<clock, previous_layer, layerCalls, recvCalls>>
    /\ UNCHANGED callers

accessibility_send_caps_word_on ==
    /\ NumCalls < MaxCalls
    /\ IF ~caps_word_state
       THEN /\ sent' = raw_hid_send(sent, Report(EVENT_CAPS_WORD, 1))
            /\ caps_word_state' = TRUE
       ELSE UNCHANGED <<sent, caps_word_state>>
    /\ capsCalls' = Append(capsCalls,
           [on |-> TRUE, before |-> caps_word_state,
            after |-> caps_word_state', tx |-> NumSent(sent') - NumSent(sent)])
    /\ UNCHANGED <<clock, previous_layer, last_time, layerCalls, recvCalls>>
    /\ UNCHANGED callers

\* ----------------------------------------- accessibility_send_caps_word_off
\* Variant: the report is sent but caps_word_state keeps its value.
accessibility_send_caps_word_off_stale ==
    /\ NumCalls < MaxCalls
    /\ IF caps_word_state
       THEN sent' = raw_hid_send(sent, Report(EVENT_CAPS_WORD, 0))
       ELSE sent' = sent
    /\ caps_word_state' = caps_word_state
    /\ capsCalls' = Append(capsCalls,
           [on |-> FALSE, before |-> caps_word_state,
            after |-> caps_word_state', tx |-> NumSent(sent') - NumSent(sent)])
    /\ UNCHANGED <<clock, previous_layer, last_time, layerCalls, recvCalls>>
    /\ UNCHANGED callers

accessibility_send_caps_word_off ==
    /\ NumCalls < MaxCalls
    /\ IF caps_word_state
       THEN /\ sent' = raw_hid_send(sent, Report(EVENT_CAPS_WORD, 0))
            /\ caps_word_state' = FALSE
       ELSE UNCHANGED <<sent, caps_word_state>>
    /\ capsCalls' = Append(capsCalls,
           [on |-> FALSE, before |-> caps_word_state,
            after |-> caps_word_state', tx |-> NumSent(sent') - NumSent(sent)])
    /\ UNCHANGED <<clock, previous_layer, last_time, layerCalls, recvCalls>>
    /\ UNCHANGED callers

\* ------------------------------------------------------------------ Next
LayerChange ==
    \E layer \in Layers, now \in TimePoints :
        accessibility_send_layer_change(layer, now)

Receive ==
    \E in \in Inbound, layer_state \in LayerStates :
        raw_hid_receive(in[1], in[2], layer_state)

Next ==
    \/ LayerChange
    \/ accessibility_send_caps_word_on
    \/ accessibility_send_caps_word_off
    \/ Receive

Spec == Init /\ [][Next]_vars

\* ------------------------------------------- the counter around its wrap
\* Millisecond counter values on both sides of 65536, where the 16-bit
\* timer_read() wraps to 0.
WrapTimePoints == {210, 65500, 65600, 65700}

LayerChangeWrap ==
    \E layer \in Layers, now \in WrapTimePoints :
        accessibility_send_layer_change(layer, now)

WrapNext ==
    \/ LayerChangeWrap
    \/ accessibility_send_caps_word_on
    \/ accessibility_send_caps_word_off
    \/ Receive

SpecWrap == Init /\ [][WrapNext]_vars

\* ------------------------------------------------- the layer hook retries
\* Milliseconds between two retries of the layer hook: below and above the
\* debounce window, and 100 ms less and 100 ms more than one period of the
\* 16-bit counter.
RetrySteps == {10, 190, 250, 65436, 65636}

\* Layer-change calls before the retries start.
PrefixLayerChange ==
    /\ pending = -1
    /\ Len(layerCalls) < MaxPrefixCalls
    /\ LayerChange

\* The firmware switches to a layer that is not the reported one, and its
\* hook passes that layer from now on.
StartRetry ==
    /\ pending = -1
    /\ \E layer \in Layers : layer # previous_layer /\ pending' = layer
    /\ UNCHANGED <<clock, previous_layer, caps_word_state, last_time, sent,
                   layerCalls, capsCalls, recvCalls, pc, overlapped>>

\* The hook fires again, some milliseconds later, with the same layer, as
\* long as that layer is not the reported one.  The clock is followed modulo
\* the period of the counter, which is all that timer_read returns of it.
Retry ==
    /\ pending # -1
    /\ pending # previous_layer
    /\ \E d \in RetrySteps :
           LayerChangeStep(pending, timer_read(clock + d))
    /\ UNCHANGED <<caps_word_state, layerCalls, capsCalls, recvCalls,
                   pending, pc, overlapped>>

RetryNext ==
    \/ PrefixLayerChange
    \/ StartRetry
    \/ Retry

\* The clock keeps advancing and the hook keeps firing: the retry is taken
\* as long as it is possible.
SpecRetry == Init /\ [][RetryNext]_vars /\ WF_vars(Retry)

\* ------------------------------------- Caps-Word calls, statement by statement
\* The functions take no lock and caps_word_state is a plain bool, so a call
\* from another context can run between any two statements of a call.  Each
\* context c is at pc[c]; overlapped records that some step was taken while
\* another context was inside a call.
Others(c) == Contexts \ {c}

Overlap(c) == overlapped \/ (\E o \in Others(c) : pc[o] # "idle")

ConcFrame == UNCHANGED <<clock, previous_layer, last_time, layerCalls,
                         capsCalls, recvCalls, pending>>

\* Variant: the call sends without testing caps_word_state.
caps_word_on_test_blind(c) ==
    /\ pc[c] = "idle"
    /\ Len(sent[EVENT_CAPS_WORD]) < MaxConcReports
    /\ pc' = [pc EXCEPT ![c] = "on_send"]
    /\ overlapped' = Overlap(c)
    /\ UNCHANGED <<caps_word_state, sent>>
    /\ ConcFrame

\* if (!caps_word_state)
caps_word_on_test(c) ==
    /\ pc[c] = "idle"
    /\ Len(sent[EVENT_CAPS_WORD]) < MaxConcReports
    /\ pc' = [pc EXCEPT ![c] = IF ~caps_word_state THEN "on_send" ELSE "idle"]
    /\ overlapped' = Overlap(c)
    /\ UNCHANGED <<caps_word_state, sent>>
    /\ ConcFrame

\* data[0] = 2; data[1] = 1; raw_hid_send(data, sizeof(data));
caps_word_on_send(c) ==
    /\ pc[c] = "on_send"
    /\ sent' = raw_hid_send(sent, Report(EVENT_CAPS_WORD, 1))
    /\ pc' = [pc EXCEPT ![c] = "on_store"]
    /\ overlapped' = Overlap(c)
    /\ UNCHANGED caps_word_state
    /\ ConcFrame

\* caps_word_state = true;
caps_word_on_store(c) ==
    /\ pc[c] = "on_store"
    /\ caps_word_state' = TRUE
    /\ pc' = [pc EXCEPT ![c] = "idle"]
    /\ overlapped' = Overlap(c)
    /\ UNCHANGED sent
    /\ ConcFrame

\* if (caps_word_state)
caps_word_off_test(c) ==
    /\ pc[c] = "idle"
    /\ Len(sent[EVENT_CAPS_WORD]) < MaxConcReports
    /\ pc' = [pc EXCEPT ![c] = IF caps_word_state THEN "off_send" ELSE "idle"]
    /\ overlapped' = Overlap(c)
    /\ UNCHANGED <<caps_word_state, sent>>
    /\ ConcFrame

\* data[0] = 2; data[1] = 0; raw_hid_send(data, sizeof(data));
caps_word_off_send(c) ==
    /\ pc[c] = "off_send"
    /\ sent' = raw_hid_send(sent, Report(EVENT_CAPS_WORD, 0))
    /\ pc' = [pc EXCEPT ![c] = "off_store"]
    /\ overlapped' = Overlap(c)
    /\ UNCHANGED caps_word_state
    /\ ConcFrame

\* caps_word_state = false;
caps_word_off_store(c) ==
    /\ pc[c] = "off_store"
    /\ caps_word_state' = FALSE
    /\ pc' = [pc EXCEPT ![c] = "idle"]
    /\ overlapped' = Overlap(c)
    /\ UNCHANGED sent
    /\ ConcFrame

ConcNext ==
    \E c \in Contexts :
        \/ caps_word_on_test(c)
        \/ caps_word_on_send(c)
        \/ caps_word_on_store(c)
        \/ caps_word_off_test(c)
        \/ caps_word_off_send(c)
        \/ caps_word_off_store(c)

SpecConc == Init /\ [][ConcNext]_vars

\* ------------------------------------------------------------ properties
\* Observers over the histories.
Last(q) == q[Len(q)]

\* Byte 1 of a report (data[1]).
Payload(data) == data[2]

\* The three leading layer-change calls of a behaviour, by argument and time.
LayerScenario(l1, t1, l2, t2, l3, t3) ==
    /\ Len(layerCalls) = 3
    /\ layerCalls[1].layer = l1 /\ layerCalls[1].t = t1
    /\ layerCalls[2].layer = l2 /\ layerCalls[2].t = t2
    /\ layerCalls[3].layer = l3 /\ layerCalls[3].t = t3

TxOf(calls) == [i \in DOMAIN calls |-> calls[i].tx]

\* C1: every sendLayerChange call transmits at most one report, the type-1
\* reports are exactly those the calls transmitted, and any two transmitting
\* calls are at least 200 ms apart on the (monotonic) clock.
C1_AtMostOncePer200ms ==
    /\ \A i \in DOMAIN layerCalls : layerCalls[i].tx \in {0, 1}
    /\ Len(sent[EVENT_LAYER]) =
           Cardinality({i \in DOMAIN layerCalls : layerCalls[i].tx = 1})
    /\ \A i, j \in DOMAIN layerCalls :
           (i < j /\ layerCalls[i].tx = 1 /\ layerCalls[j].tx = 1)
               => layerCalls[j].t - layerCalls[i].t >= 200

\* C1 witness: two calls transmitted, exactly 200 ms apart.
C1_Witness ==
    \E i, j \in DOMAIN layerCalls :
        /\ i < j /\ layerCalls[i].tx = 1 /\ layerCalls[j].tx = 1
        /\ layerCalls[j].t - layerCalls[i].t = 200

\* The C2 scenario: from startup, three pairwise different layers, none 255,
\* passed at 0 ms, 150 ms and 210 ms.
C2_Scenario ==
    \E l1, l2, l3 \in Layers \ {255} :
        /\ l1 # l2 /\ l1 # l3 /\ l2 # l3
        /\ LayerScenario(l1, 0, l2, 150, l3, 210)

\* C2 as stated: in the scenario the first call transmits, the second does
\* not, the third does.
C2_Original == C2_Scenario => TxOf(layerCalls) = <<1, 0, 1>>

\* C2 as amended: in the scenario the first call (0 ms after last_time = 0)
\* and the second transmit nothing, and the third transmits its layer.
C2_FirstCallDebounced ==
    C2_Scenario =>
        /\ TxOf(layerCalls) = <<0, 0, 1>>
        /\ sent[EVENT_LAYER] = <<Report(1, layerCalls[3].layer)>>

\* C2 witness: the scenario has run, and its third call transmitted.
C2_Witness == C2_Scenario /\ Len(sent[EVENT_LAYER]) = 1

\* The C3 scenario: from startup, sendLayerChange(0) at 0, 50 and 260 ms.
C3_Scenario == LayerScenario(0, 0, 0, 50, 0, 260)

\* C3 as stated: the scenario transmits exactly one report, [1,0,0...], and
\* the first call emits it.
C3_Original ==
    C3_Scenario =>
        /\ TxOf(layerCalls) = <<1, 0, 0>>
        /\ sent[EVENT_LAYER] = <<[i \in 1..32 |-> IF i = 1 THEN 1 ELSE 0]>>

\* C3 as amended: the scenario transmits exactly one report, [1,0,0...], and
\* the third call emits it; the calls at 0 and 50 ms are debounced.
C3_OneReportByThirdCall ==
    C3_Scenario =>
        /\ TxOf(layerCalls) = <<0, 0, 1>>
        /\ sent[EVENT_LAYER] = <<[i \in 1..32 |-> IF i = 1 THEN 1 ELSE 0]>>

\* C3 witness: the scenario has run with previous_layer now 0.
C3_Witness == C3_Scenario /\ previous_layer = 0 /\ last_time = 260

\* C4: a sendCapsWordOn / sendCapsWordOff call transmits one report exactly
\* when it changes caps_word_state (on while false, off while true) and
\* otherwise transmits nothing and changes nothing; the type-2 payloads
\* alternate 1, 0, 1, ...; and on, on, off, off, on transmits [2,1], [2,0],
\* [2,1].
C4_CapsWordEdgeOnly ==
    /\ \A i \in DOMAIN capsCalls :
           LET c == capsCalls[i]
           IN  /\ c.tx \in {0, 1}
               /\ (c.tx = 1) <=> (c.after # c.before)
               /\ (c.after # c.before) <=> (c.on # c.before)
               /\ c.after = c.on
               /\ c.before = IF i = 1 THEN FALSE ELSE capsCalls[i - 1].after
    /\ Len(sent[EVENT_CAPS_WORD]) =
           Cardinality({i \in DOMAIN capsCalls : capsCalls[i].tx = 1})
    /\ \A k \in DOMAIN sent[EVENT_CAPS_WORD] :
           /\ sent[EVENT_CAPS_WORD][k][1] = 2
           /\ Payload(sent[EVENT_CAPS_WORD][k]) = k % 2
    /\ [i \in DOMAIN capsCalls |-> capsCalls[i].on]
           = <<TRUE, TRUE, FALSE, FALSE, TRUE>>
         => /\ TxOf(capsCalls) = <<1, 0, 1, 0, 1>>
            /\ sent[EVENT_CAPS_WORD] =
                   <<[i \in 1..32 |-> IF i = 1 THEN 2 ELSE IF i = 2 THEN 1 ELSE 0],
                     [i \in 1..32 |-> IF i = 1 THEN 2 ELSE 0],
                     [i \in 1..32 |-> IF i = 1 THEN 2 ELSE IF i = 2 THEN 1 ELSE 0]>>

\* C4 witness: the calls on, on, off, off, on have been made.
C4_Witness ==
    /\ [i \in DOMAIN capsCalls |-> capsCalls[i].on]
           = <<TRUE, TRUE, FALSE, FALSE, TRUE>>
    /\ Len(sent[EVENT_CAPS_WORD]) = 3

\* C5: no type-1 report carries the layer of the type-1 report before it; a
\* call whose layer is the previously reported one transmits nothing; two
\* consecutive calls with the same layer transmit at most one report.
C5_NoSpuriousLayerReport ==
    /\ \A k \in DOMAIN sent[EVENT_LAYER] :
           k > 1 => Payload(sent[EVENT_LAYER][k]) # Payload(sent[EVENT_LAYER][k - 1])
    /\ \A i \in DOMAIN layerCalls :
           /\ layerCalls[i].layer = layerCalls[i].prev => layerCalls[i].tx = 0
           /\ layerCalls[i].prev =
                  IF \E j \in 1..(i - 1) : layerCalls[j].tx = 1
                  THEN LET j == CHOOSE j \in 1..(i - 1) :
                                    /\ layerCalls[j].tx = 1
                                    /\ \A m \in (j + 1)..(i - 1) : layerCalls[m].tx = 0
                       IN  layerCalls[j].layer
                  ELSE 255
           /\ (i > 1 /\ layerCalls[i].layer = layerCalls[i - 1].layer)
                  => layerCalls[i - 1].tx + layerCalls[i].tx <= 1

\* C5 witness: a call transmitted layer L, and the next call, 200 ms later
\* and so past the debounce, passed L again and transmitted nothing.
C5_Witness ==
    \E i \in DOMAIN layerCalls :
        /\ i > 1
        /\ layerCalls[i].layer = layerCalls[i - 1].layer
        /\ layerCalls[i - 1].tx = 1
        /\ layerCalls[i].t - layerCalls[i - 1].t >= 200
        /\ layerCalls[i].tx = 0

\* C6: previous_layer is the payload of the last type-1 report sent (255 if
\* none), caps_word_state that of the last type-2 report sent (false if
\* none), and a call that sends nothing leaves both unchanged.
C6_StateIsLastTransmitted ==
    /\ [](/\ previous_layer =
                 (IF sent[EVENT_LAYER] = <<>> THEN 255
                  ELSE Payload(Last(sent[EVENT_LAYER])))
           /\ caps_word_state =
                 (IF sent[EVENT_CAPS_WORD] = <<>> THEN FALSE
                  ELSE Payload(Last(sent[EVENT_CAPS_WORD])) = 1))
    /\ [][NumSent(sent') = NumSent(sent)
             => /\ previous_layer' = previous_layer
                /\ caps_word_state' = caps_word_state]_vars

\* C6 witness: reports of both types were sent, then a layer call was
\* suppressed: its layer is neither previous_layer nor was it sent.
C6_Witness ==
    /\ Len(sent[EVENT_LAYER]) >= 1
    /\ Len(sent[EVENT_CAPS_WORD]) >= 2
    /\ layerCalls # <<>>
    /\ Last(layerCalls).tx = 0
    /\ Last(layerCalls).layer # previous_layer

\* C7: raw_hid_receive with byte 0 = 99 transmits exactly one report,
\* [99, H, 0 x 30] with H the highest active layer at the call, whatever
\* previous_layer, the rest of the packet and the declared length.
C7_QueryAnswersLiveLayer ==
    /\ \A i \in DOMAIN recvCalls :
           recvCalls[i].cmd = 99 => recvCalls[i].tx = 1
    /\ LET queries == SelectSeq(recvCalls, LAMBDA c : c.cmd = 99)
       IN  sent[CMD_GET_LAYER] =
               [k \in DOMAIN queries |->
                   [i \in 1..32 |->
                       IF i = 1 THEN 99
                       ELSE IF i = 2 THEN get_highest_layer(queries[k].ls)
                       ELSE 0]]

\* C7 witness: a query was answered with layer 3 while previous_layer is
\* another layer.
C7_Witness ==
    /\ recvCalls # <<>>
    /\ Last(recvCalls).cmd = 99
    /\ get_highest_layer(Last(recvCalls).ls) = 3
    /\ previous_layer = 1
    /\ sent[CMD_GET_LAYER] # <<>>
    /\ Payload(Last(sent[CMD_GET_LAYER])) = 3

\* C8: raw_hid_receive with byte 0 other than 99 transmits nothing, and with
\* any byte 0 it leaves previous_layer, caps_word_state and last_time
\* unchanged.
C8_ReceiveFrame ==
    /\ [](\A i \in DOMAIN recvCalls :
              recvCalls[i].cmd # 99 => recvCalls[i].tx = 0)
    /\ [][recvCalls' # recvCalls
             => /\ previous_layer' = previous_layer
                /\ caps_word_state' = caps_word_state
                /\ last_time' = last_time
                /\ (Last(recvCalls').cmd # 99 => sent' = sent)]_vars

\* C8 witness: an unknown command arrived after reports of the other types
\* had been sent, and no response exists.
C8_Witness ==
    /\ recvCalls # <<>>
    /\ Last(recvCalls).cmd = 7
    /\ sent[CMD_GET_LAYER] = <<>>
    /\ previous_layer # 255
    /\ caps_word_state
    /\ last_time # 0

\* C9 as stated: every sendLayerChange call, a debounced one included, sets
\* last_time to the clock reading of the call.
C9_Original ==
    layerCalls # <<>> => last_time = timer_read(Last(layerCalls).t)

\* C9 as amended: a sendLayerChange call sets last_time to the clock reading
\* when at least 200 ms elapsed since last_time, whether or not it
\* transmits, and leaves last_time unchanged when it is debounced.
C9_StampOnlyPastDebounce ==
    [][layerCalls' # layerCalls
         => LET t == Last(layerCalls').t
            IN  last_time' = IF t - last_time >= 200 THEN t ELSE last_time]_vars

\* C9 witness: the last call was debounced at a clock reading other than
\* last_time, after an earlier call had set last_time.
C9_Witness ==
    /\ layerCalls # <<>>
    /\ last_time # 0
    /\ Last(layerCalls).t # last_time
    /\ Last(layerCalls).tx = 0

\* C10: a Caps Word call transmits exactly when its target differs from
\* caps_word_state, whatever the clock and last_time, and leaves
\* previous_layer, last_time and the type-1 reports alone; a layer-change
\* call leaves caps_word_state and the type-2 reports alone.
C10_CapsWordIndependentOfDebounce ==
    [][/\ capsCalls' # capsCalls
           => /\ previous_layer' = previous_layer
              /\ last_time' = last_time
              /\ clock' = clock
              /\ sent'[EVENT_LAYER] = sent[EVENT_LAYER]
              /\ (NumSent(sent') # NumSent(sent))
                     <=> (Last(capsCalls').on # caps_word_state)
       /\ layerCalls' # layerCalls
           => /\ caps_word_state' = caps_word_state
              /\ sent'[EVENT_CAPS_WORD] = sent[EVENT_CAPS_WORD]]_vars

\* C10 witness: a Caps Word report was sent while a layer-change call at the
\* same clock reading is debounced.
C10_Witness ==
    /\ capsCalls # <<>> /\ Last(capsCalls).tx = 1
    /\ layerCalls # <<>> /\ Last(layerCalls).tx = 0
    /\ Last(layerCalls).t = clock
    /\ clock - last_time < 200
    /\ Last(layerCalls).layer # previous_layer

\* The layer arguments of the layer-change calls that transmitted, in order.
TransmittedLayers ==
    LET tx == SelectSeq(layerCalls, LAMBDA c : c.tx = 1)
    IN  [k \in DOMAIN tx |-> tx[k].layer]

\* C11: every report sent is 32 bytes long with byte 0 in {1, 2, 99} and
\* bytes 2..31 zero; a type-2 report has byte 1 in {0, 1}; a type-1 report
\* has byte 1 equal to the layer argument of the call that sent it.
C11_ReportFormat ==
    /\ \A ty \in DOMAIN sent : \A k \in DOMAIN sent[ty] :
           LET data == sent[ty][k]
           IN  /\ DOMAIN data = 1..32
               /\ data[1] = ty
               /\ data[1] \in {1, 2, 99}
               /\ \A i \in 3..32 : data[i] = 0
               /\ data[1] = 2 => data[2] \in {0, 1}
    /\ [k \in DOMAIN sent[EVENT_LAYER] |-> Payload(sent[EVENT_LAYER][k])]
           = TransmittedLayers

\* C11 witness: reports of the three types have been sent, two of them
\* layer changes.
C11_Witness ==
    /\ Len(sent[EVENT_LAYER]) = 2
    /\ sent[EVENT_CAPS_WORD] # <<>>
    /\ sent[CMD_GET_LAYER] # <<>>

\* A recorded call passed the debounce test: at least 200 ms lie between
\* last_time and the counter value of the call.
Passed(c) == c.t - c.last >= 200

\* previous_layer and last_time right after the i-th layer-change call.
PrevAfter(i) ==
    IF i < Len(layerCalls) THEN layerCalls[i + 1].prev ELSE previous_layer

LastAfter(i) ==
    IF i < Len(layerCalls) THEN layerCalls[i + 1].last ELSE last_time

\* C13: a call that passes the debounce with layer = previous_layer sends
\* nothing and stores the clock reading in last_time, and the next call,
\* when less than 200 ms later, sends nothing.
C13_UnchangedLayerStamps ==
    \A i \in DOMAIN layerCalls :
        LET c == layerCalls[i]
        IN  (Passed(c) /\ c.layer = c.prev)
                => /\ c.tx = 0
                   /\ LastAfter(i) = c.t
                   /\ PrevAfter(i) = c.prev
                   /\ (i < Len(layerCalls) /\ layerCalls[i + 1].t - c.t < 200)
                          => layerCalls[i + 1].tx = 0

\* C13 witness: a report was sent; a later call with the same layer passed
\* the debounce; the call after it, with another layer, less than 200 ms
\* later and more than 200 ms after the report, sent nothing.
C13_Witness ==
    \E i \in DOMAIN layerCalls :
        /\ 1 < i /\ i < Len(layerCalls)
        /\ layerCalls[i - 1].tx = 1
        /\ Passed(layerCalls[i])
        /\ layerCalls[i].layer = layerCalls[i].prev
        /\ layerCalls[i + 1].layer # layerCalls[i + 1].prev
        /\ layerCalls[i + 1].t - layerCalls[i].t < 200
        /\ layerCalls[i + 1].t - layerCalls[i - 1].t > 200
        /\ layerCalls[i + 1].tx = 0

\* C14: a call made less than 200 ms after last_time was stored sends
\* nothing and leaves previous_layer unchanged, whatever its layer; its
\* layer is not queued: the type-1 reports carry, in order, the layers of
\* the calls that passed the debounce with a changed layer, and no others.
C14_DebouncedCallDropped ==
    /\ \A i \in DOMAIN layerCalls :
           LET c == layerCalls[i]
           IN  /\ ~Passed(c) => (c.tx = 0 /\ PrevAfter(i) = c.prev)
               /\ c.tx = 1 <=> (Passed(c) /\ c.layer # c.prev)
    /\ Len(sent[EVENT_LAYER]) = Len(TransmittedLayers)
    /\ \A k \in DOMAIN sent[EVENT_LAYER] :
           sent[EVENT_LAYER][k] = Report(1, TransmittedLayers[k])

\* C14 witness: a call with a changed layer was debounced after a call had
\* stored last_time, a later call sent another layer, and no report carries
\* the dropped layer.
C14_Witness ==
    \E i, j \in DOMAIN layerCalls :
        /\ i < j
        /\ layerCalls[i].last # 0
        /\ ~Passed(layerCalls[i])
        /\ layerCalls[i].layer # layerCalls[i].prev
        /\ layerCalls[j].tx = 1
        /\ \A k \in DOMAIN sent[EVENT_LAYER] :
               Payload(sent[EVENT_LAYER][k]) # layerCalls[i].layer

\* C17: a call made in the first 200 ms after startup sends nothing and
\* leaves previous_layer and last_time unchanged, whatever its layer; the
\* first type-1 report is sent at a clock reading of 200 ms or more.
C17_NothingInFirst200ms ==
    \A i \in DOMAIN layerCalls :
        LET c == layerCalls[i]
        IN  /\ c.t < 200
               => /\ c.tx = 0
                  /\ c.prev = 255 /\ PrevAfter(i) = 255
                  /\ c.last = 0 /\ LastAfter(i) = 0
            /\ c.tx = 1 => timer_read(c.t) >= 200

\* C17 witness: a call at 150 ms with a new layer sent nothing, and a later
\* call sent the first report.
C17_Witness ==
    /\ Len(layerCalls) >= 2
    /\ layerCalls[1].t = 150
    /\ layerCalls[1].layer = 1
    /\ layerCalls[1].tx = 0
    /\ Len(sent[EVENT_LAYER]) = 1

\* C18: from startup, sendLayerChange(255) sends nothing, at any clock
\* reading, as long as no other layer has been reported: the first type-1
\* report never carries 255.
C18_Layer255IsTheSentinel ==
    /\ \A i \in DOMAIN layerCalls :
           (/\ layerCalls[i].layer = 255
            /\ \A j \in 1..(i - 1) : layerCalls[j].tx = 0)
               => layerCalls[i].tx = 0
    /\ sent[EVENT_LAYER] # <<>> => Payload(sent[EVENT_LAYER][1]) # 255

\* C18 witness: sendLayerChange(255) passed the debounce before any report
\* and sent nothing; the third call reported the first layer.
C18_Witness ==
    /\ Len(layerCalls) = 3
    /\ layerCalls[1].layer = 255 /\ Passed(layerCalls[1])
    /\ layerCalls[1].tx = 0
    /\ layerCalls[2].tx = 0
    /\ layerCalls[3].tx = 1

\* C16: with the 16-bit timer and the uint32_t difference, a call made
\* fewer than 200 ms of real time after a transmitting call sends nothing,
\* also when the counter wrapped between the two.
C16_DebounceAcrossWrap ==
    \A i, j \in DOMAIN layerCalls :
        (/\ i < j
         /\ layerCalls[i].tx = 1
         /\ layerCalls[j].t - layerCalls[i].t < 200)
            => layerCalls[j].tx = 0

\* C12: when the layer hook keeps passing the same layer L, different from
\* previous_layer, while the clock advances, the report [1, L] is
\* eventually sent, whatever the spacing of the calls.
C12_RetriedLayerIsReported ==
    \A layer \in Layers :
        (pending = layer) ~>
            (/\ previous_layer = layer
             /\ sent[EVENT_LAYER] # <<>>
             /\ Last(sent[EVENT_LAYER]) = Report(EVENT_LAYER, layer))

\* C15: two consecutive Caps-Word reports with the same payload are sent
\* only when calls were interleaved: as long as every call ran to completion
\* before the next one started, consecutive reports differ.
C15_DuplicateOnlyWhenInterleaved ==
    ~overlapped =>
        \A i \in 1..(Len(sent[EVENT_CAPS_WORD]) - 1) :
            Payload(sent[EVENT_CAPS_WORD][i]) # Payload(sent[EVENT_CAPS_WORD][i + 1])

\* C15 witness: both contexts were inside accessibility_send_caps_word_on
\* with caps_word_state false, both sent [2, 1], and both have returned.
C15_Witness ==
    /\ overlapped
    /\ \A c \in Contexts : pc[c] = "idle"
    /\ caps_word_state
    /\ Len(sent[EVENT_CAPS_WORD]) = 2
    /\ \A i \in 1..2 : sent[EVENT_CAPS_WORD][i] = Report(EVENT_CAPS_WORD, 1)

====
